---- MODULE Spec2Model ----
(***************************************************************************)
(* GymCrowd backend: the scrape / parse / reconcile pipeline.              *)
(*                                                                         *)
(* apps/gyms/scraper.py (scrape_gym_data), its Celery wrapper              *)
(* apps/gyms/tasks.py, the management command                              *)
(* apps/gyms/management/commands/scrape_gym_data.py and the Gym and        *)
(* CrowdData tables of apps/gyms/models.py.                                *)
(*                                                                         *)
(* Texts are sequences of tokens.  A token is one character, except that   *)
(* the two marker words "Last Count:" and "Updated:", the words of a gym   *)
(* name and the numeric fields of a timestamp are single tokens.           *)
(***************************************************************************)
EXTENDS Integers, Sequences, FiniteSets, TLC

VARIABLES gyms, crowd, next_crowd_id, pc, entrypoint, facilities, idx,
          data_list, outcome, log, snapshot,
          users, tokens, token_seq, prefs, req

\* the scrape pipeline
scrapeVars == <<pc, entrypoint, facilities, idx, data_list, outcome, log, snapshot>>

\* the users application and the requests in flight
appVars == <<users, tokens, token_seq, prefs, req>>

vars == <<gyms, crowd, next_crowd_id, pc, entrypoint, facilities, idx,
          data_list, outcome, log, snapshot,
          users, tokens, token_seq, prefs, req>>

(***************************************************************************)
(* Bounds of the model.                                                    *)
(***************************************************************************)
\* longest page (number of barChart fragments) a sequential run fetches
MaxPage == 2
\* longest page fetched by each of two overlapping runs
MaxConcPage == 1
\* longest page of fragments that differ in their name prefix
MaxNamePage == 2
\* longest page of fragments that run through the field texts
MaxFieldPage == 1

(***************************************************************************)
(* Python str operations on token sequences.                               *)
(***************************************************************************)
Whitespace == {" ", "\n"}

SetMin(S) == CHOOSE x \in S : \A y \in S : x <= y

\* str.strip(): drop leading and trailing whitespace
RECURSIVE LStrip(_)
LStrip(s) ==
    IF s # <<>> /\ Head(s) \in Whitespace THEN LStrip(Tail(s)) ELSE s

RECURSIVE RStrip(_)
RStrip(s) ==
    IF s # <<>> /\ s[Len(s)] \in Whitespace
    THEN RStrip(SubSeq(s, 1, Len(s) - 1))
    ELSE s

Strip(s) == RStrip(LStrip(s))

\* str.find(sep): the first position where sep occurs in s, 0 when none
Find(s, sep) ==
    LET hits == {j \in 1..(Len(s) - Len(sep) + 1) :
                    SubSeq(s, j, j + Len(sep) - 1) = sep}
    IN  IF hits = {} THEN 0 ELSE SetMin(hits)

\* str.split(sep): the list of the pieces between the occurrences of sep
RECURSIVE Split(_, _)
Split(s, sep) ==
    LET j == Find(s, sep)
    IN  IF j = 0
        THEN <<s>>
        ELSE <<SubSeq(s, 1, j - 1)>> \o Split(SubSeq(s, j + Len(sep), Len(s)), sep)

\* str.replace(old, ""), old a single character
RECURSIVE Remove(_, _)
Remove(s, ch) ==
    IF s = <<>> THEN <<>>
    ELSE IF Head(s) = ch THEN Remove(Tail(s), ch)
    ELSE <<Head(s)>> \o Remove(Tail(s), ch)

(***************************************************************************)
(* Python conversions.  Each returns [ok |-> TRUE, val |-> v], or          *)
(* [ok |-> FALSE] when the conversion raises ValueError.                   *)
(***************************************************************************)
Digits == {"0", "1", "2", "3", "4", "5", "6", "7", "8", "9"}

DigitVal(d) ==
    CASE d = "0" -> 0 [] d = "1" -> 1 [] d = "2" -> 2 [] d = "3" -> 3
      [] d = "4" -> 4 [] d = "5" -> 5 [] d = "6" -> 6 [] d = "7" -> 7
      [] d = "8" -> 8 [] d = "9" -> 9

IsDigits(s) == s # <<>> /\ \A k \in 1..Len(s) : s[k] \in Digits

RECURSIVE Decimal(_)
Decimal(s) ==
    IF s = <<>> THEN 0
    ELSE 10 * Decimal(SubSeq(s, 1, Len(s) - 1)) + DigitVal(s[Len(s)])

ValueError == [ok |-> FALSE]

\* int(text): surrounding whitespace, an optional sign, decimal digits
PyInt(text) ==
    LET s    == Strip(text)
        sign == IF s # <<>> /\ Head(s) \in {"-", "+"} THEN Head(s) ELSE ""
        body == IF sign = "" THEN s ELSE Tail(s)
    IN  IF IsDigits(body)
        THEN [ok |-> TRUE,
              val |-> IF sign = "-" THEN 0 - Decimal(body) ELSE Decimal(body)]
        ELSE ValueError

\* float(text) on the decimal literals  digits  and  digits "." digits ;
\* the value is kept exact, as the pair <<whole part, fraction digits>>
PyFloat(text) ==
    LET s     == Strip(text)
        parts == Split(s, <<".">>)
    IN  IF Len(parts) = 1 /\ IsDigits(parts[1])
        THEN [ok |-> TRUE, val |-> <<Decimal(parts[1]), <<"0">> >>]
        ELSE IF Len(parts) = 2 /\ IsDigits(parts[1]) /\ IsDigits(parts[2])
        THEN [ok |-> TRUE, val |-> <<Decimal(parts[1]), parts[2]>>]
        ELSE ValueError

\* the numeric fields of a timestamp text, each one token
FieldVal(tok) ==
    CASE tok = "00" -> 0 [] tok = "01" -> 1 [] tok = "03" -> 3
      [] tok = "12" -> 12 [] tok = "13" -> 13 [] tok = "15" -> 15
      [] tok = "30" -> 30 [] tok = "2024" -> 2024
      [] OTHER -> -1

\* datetime.strptime(text, "%m/%d/%Y %I:%M %p")
Strptime(text) ==
    IF /\ Len(text) = 11
       /\ text[2] = "/" /\ text[4] = "/" /\ text[6] = " "
       /\ text[8] = ":" /\ text[10] = " "
       /\ FieldVal(text[1]) \in 1..12
       /\ FieldVal(text[3]) \in 1..31
       /\ FieldVal(text[5]) \in 1..9999
       /\ FieldVal(text[7]) \in 1..12
       /\ FieldVal(text[9]) \in 0..59
       /\ text[11] \in {"AM", "PM"}
    THEN [ok |-> TRUE,
          val |-> [year   |-> FieldVal(text[5]),
                   month  |-> FieldVal(text[1]),
                   day    |-> FieldVal(text[3]),
                   hour   |-> (FieldVal(text[7]) % 12)
                                + (IF text[11] = "PM" THEN 12 ELSE 0),
                   minute |-> FieldVal(text[9])]]
    ELSE ValueError

(***************************************************************************)
(* Optional values: None is the empty tuple, a present value v is <<v>>.   *)
(***************************************************************************)
NoValue == <<>>
Some(v) == <<v>>

(***************************************************************************)
(* The fetched page: a sequence of barChart fragments.  A fragment is      *)
(*   text       facility.text, the text of the whole div                   *)
(*   has_value  whether facility.find("span", class_="barChart__value")    *)
(*              finds an element                                           *)
(*   value      that element's text                                        *)
(***************************************************************************)
LastCountMark == "Last Count:"
UpdatedMark   == "Updated:"
NA            == <<"N", "A">>

\* a widget as the upstream page lays it out:
\*   "<name> Last Count: <count>Updated: <updated>\n<value>"
Widget(name, count, updated, has_value, value) ==
    [text      |-> name \o <<" ", LastCountMark, " ">> \o count
                       \o <<UpdatedMark, " ">> \o updated \o <<"\n">> \o value,
     has_value |-> has_value,
     value     |-> value]

(***************************************************************************)
(* scrape_gym_data, lines 27-59 (scraper.py) and 117-129 (the management   *)
(* command): the fields of one fragment.  impl is "scraper" or "command".  *)
(* error is "" or the exception the extraction raises.                     *)
(***************************************************************************)
Parsed(err, name, occ, pct, upd) ==
    [error |-> err, name |-> name, occupancy |-> occ,
     percentage_full |-> pct, last_updated |-> upd]

\* name: the stripped text before "Last Count:"; scraper.py alone replaces
\* an empty name by "Unknown"
ExtractName(f, impl) ==
    LET raw_text     == Strip(f.text)
        name_element == Strip(Split(raw_text, <<LastCountMark>>)[1])
    IN  IF impl = "scraper" /\ name_element = <<>>
        THEN <<"Unknown">>
        ELSE name_element

\* count: between "Last Count: " and "Updated:"; scraper.py alone replaces
\* an empty count by "NA".  <<>> tagged with ok = FALSE is the IndexError.
ExtractCount(f, impl) ==
    LET parts == Split(f.text, <<LastCountMark, " ">>)
    IN  IF Len(parts) < 2
        THEN [ok |-> FALSE, val |-> <<>>]
        ELSE LET count_text == Strip(Split(parts[2], <<UpdatedMark>>)[1])
             IN  [ok  |-> TRUE,
                  val |-> IF impl = "scraper" /\ count_text = <<>>
                          THEN NA
                          ELSE count_text]

\* updated: after "Updated: " up to the end of the line
ExtractUpdated(f) ==
    LET parts == Split(f.text, <<UpdatedMark, " ">>)
    IN  IF Len(parts) < 2
        THEN [ok |-> FALSE, val |-> <<>>]
        ELSE [ok |-> TRUE, val |-> Strip(Split(parts[2], <<"\n">>)[1])]

\* ExtractPercentage with a seeded fault: the text "NA" is not set apart
ExtractPercentageNoNA(f) ==
    IF f.has_value
    THEN LET x == PyFloat(Strip(Remove(f.value, "%")))
         IN  IF x.ok THEN [ok |-> TRUE, val |-> Some(x.val)]
                     ELSE [ok |-> FALSE, val |-> NoValue]
    ELSE [ok |-> TRUE, val |-> NoValue]

\* percentage_full: float of the value element's text without "%", None when
\* the element is missing or its text is "NA"
ExtractPercentage(f) ==
    IF f.has_value /\ f.value # NA
    THEN LET x == PyFloat(Strip(Remove(f.value, "%")))
         IN  IF x.ok THEN [ok |-> TRUE, val |-> Some(x.val)]
                     ELSE [ok |-> FALSE, val |-> NoValue]
    ELSE [ok |-> TRUE, val |-> NoValue]

\* ParseOccupancy with a seeded fault: no default for "NA", int(count) always
ParseOccupancyNoDefault(count) ==
    LET x == PyInt(count)
    IN  IF x.ok THEN x ELSE [ok |-> FALSE, val |-> 0]

\* occupancy: 0 for "NA", int(count) otherwise
ParseOccupancy(count) ==
    IF count = NA
    THEN [ok |-> TRUE, val |-> 0]
    ELSE LET x == PyInt(count)
         IN  IF x.ok THEN x ELSE [ok |-> FALSE, val |-> 0]

\* updated_time: strptime of a non-empty text, None for the empty text
ParseUpdated(updated) ==
    IF updated # <<>>
    THEN LET x == Strptime(updated)
         IN  IF x.ok THEN [ok |-> TRUE, val |-> Some(x.val)]
                     ELSE [ok |-> FALSE, val |-> NoValue]
    ELSE [ok |-> TRUE, val |-> NoValue]

ParseFacility(f, impl) ==
    LET name    == ExtractName(f, impl)
        count   == ExtractCount(f, impl)
        updated == ExtractUpdated(f)
        pct     == ExtractPercentage(f)
        occ     == ParseOccupancy(count.val)
        upd     == ParseUpdated(updated.val)
    IN  IF ~count.ok \/ ~updated.ok
        THEN Parsed("IndexError", name, 0, NoValue, NoValue)
        ELSE IF ~pct.ok \/ ~occ.ok \/ ~upd.ok
        THEN Parsed("ValueError", name, 0, NoValue, NoValue)
        ELSE Parsed("", name, occ.val, pct.val, upd.val)

(***************************************************************************)
(* The pages the model fetches.                                            *)
(***************************************************************************)
NoyesName    == <<"Noyes", " ", "Fitness", " ", "Center">>
TeagleName   == <<"Teagle", " ", "Up", " ", "Fitness", " ", "Center">>
DowntownName == <<"Downtown", " ", "Gym">>

Stamp1   == <<"01", "/", "15", "/", "2024", " ", "03", ":", "30", " ", "PM">>
Stamp2   == <<"12", "/", "01", "/", "2024", " ", "12", ":", "00", " ", "AM">>
BadStamp == <<"13", "/", "15", "/", "2024", " ", "03", ":", "30", " ", "PM">>

\* well-formed, every field present
NoyesFull    == Widget(NoyesName, <<"4", "2">>, Stamp1, TRUE, <<"6", "4", "%">>)
\* count NA, no value element, empty updated text
NoyesClosed  == Widget(NoyesName, NA, <<>>, FALSE, <<>>)
\* a value element, empty updated text
NoyesNoStamp == Widget(NoyesName, <<"7">>, <<>>, TRUE, <<"1", "2", ".", "5", "%">>)
\* no value element, a timestamp
NoyesNoValue == Widget(NoyesName, <<"1", "0">>, Stamp2, FALSE, <<>>)
\* value element "NA", a timestamp
TeagleNA     == Widget(TeagleName, <<"7">>, Stamp2, TRUE, NA)
\* a name the registry does not hold
Downtown     == Widget(DowntownName, <<"4", "2">>, Stamp1, TRUE, <<"6", "4", "%">>)
\* malformed count, timestamp, percentage; no "Last Count:" marker
BadCount     == Widget(NoyesName, <<"4", "x">>, Stamp1, TRUE, <<"6", "4", "%">>)
BadUpdated   == Widget(TeagleName, <<"4", "2">>, BadStamp, TRUE, <<"6", "4", "%">>)
BadValue     == Widget(TeagleName, <<"4", "2">>, Stamp1, TRUE, <<"x", "%">>)
NoMarker     == [text |-> NoyesName \o <<" ", UpdatedMark, " ">> \o Stamp1 \o <<"\n">>,
                 has_value |-> FALSE, value |-> <<>>]

Fragments ==
    {NoyesFull, NoyesClosed, NoyesNoStamp, NoyesNoValue, TeagleNA, Downtown,
     BadCount, BadUpdated, BadValue, NoMarker}

\* a second reading of Noyes, to tell the two runs apart
NoyesLater == Widget(NoyesName, <<"5">>, Stamp2, TRUE, <<"8", "%">>)

ConcFragments == {NoyesFull, NoyesLater}

\* name prefixes: empty, differing in case, with a word more, padded with
\* whitespace, and the word scraper.py puts in the place of an empty name
UnknownName == <<"Unknown">>

NoName       == Widget(<<>>, <<"4", "2">>, Stamp1, TRUE, <<"6", "4", "%">>)
NoyesLower   == Widget(<<"noyes", " ", "Fitness", " ", "Center">>,
                       <<"4", "2">>, Stamp1, TRUE, <<"6", "4", "%">>)
NoyesAnnex   == Widget(NoyesName \o <<" ", "Annex">>,
                       <<"4", "2">>, Stamp1, TRUE, <<"6", "4", "%">>)
NoyesPadded  == Widget(<<"\n", " ">> \o NoyesName \o <<" ">>,
                       <<"9">>, Stamp2, TRUE, <<"6", "4", "%">>)
UnknownNamed == Widget(UnknownName, <<"3">>, Stamp2, TRUE, <<"6", "4", "%">>)

NameFragments ==
    {NoyesFull, NoName, NoyesLower, NoyesAnnex, NoyesPadded, UnknownNamed}

\* every combination of a count text, an updated text and a value element,
\* under a registered name.  A value element is NoValue when the fragment
\* has none, Some(text) otherwise.
CountTexts   == {NA, <<>>, <<"4", "2">>, <<"0">>, <<"-", "3">>, <<"4", "x">>,
                 <<"n", "a">>}
UpdatedTexts == {Stamp1, <<>>}
ValueOptions == {NoValue, Some(NA), Some(<<"6", "4", "%">>)}

FieldWidget(count, updated, value) ==
    IF value = NoValue
    THEN Widget(NoyesName, count, updated, FALSE, <<>>)
    ELSE Widget(NoyesName, count, updated, TRUE, value[1])

FieldFragments ==
    {FieldWidget(c, u, v) : c \in CountTexts, u \in UpdatedTexts, v \in ValueOptions}

\* ParseFacility of every fragment the model fetches, computed once
Implementations == {"scraper", "command"}

Parses ==
    [f \in Fragments \cup ConcFragments \cup NameFragments \cup FieldFragments |->
        [impl \in Implementations |-> ParseFacility(f, impl)]]

PagesOf(frags, n) == UNION {[1..k -> frags] : k \in 0..n}

\* what requests.get gives: an exception, or a status and a body
Responses(pages) ==
    {[exception |-> TRUE, status |-> 0, body |-> <<>>]}
    \cup {[exception |-> FALSE, status |-> st, body |-> b] :
             st \in {200, 404, 500}, b \in pages}

(***************************************************************************)
(* The database.                                                           *)
(*   gyms   rows of Gym:       [gym_id, name, location, type]              *)
(*   crowd  rows of CrowdData: [crowd_id, gym, occupancy, percentage_full, *)
(*          last_updated]; gym is a plain foreign key, last_updated is     *)
(*          NOT NULL                                                       *)
(***************************************************************************)
\* the built-in dataset of populate_gyms (two of its eight gyms)
GymData ==
    <<[name |-> NoyesName, location |-> "306 West Ave, Ithaca, NY 14850",
       type |-> "Fitness"],
      [name |-> TeagleName, location |-> "512 Campus Rd, Ithaca, NY 14853",
       type |-> "Fitness"]>>

GymRow(id, d) ==
    [gym_id |-> id, name |-> d.name, location |-> d.location, type |-> d.type]

\* the Gym table as populate_data leaves it
Registry == {GymRow(k, GymData[k]) : k \in 1..Len(GymData)}

\* Gym.name is a free CharField: the table may as well hold a gym named
\* "Unknown"
UnknownGym ==
    GymRow(3, [name |-> UnknownName, location |-> "Ithaca", type |-> "Fitness"])

Registries == {Registry, Registry \cup {UnknownGym}}

GymIds == {g.gym_id : g \in gyms}

\* GymGet with a seeded fault: of several gyms of the name, one is taken
GymGetFirst(name) ==
    LET found == {g \in gyms : g.name = name}
    IN  IF found = {} THEN [status |-> "DoesNotExist", gym_id |-> 0]
        ELSE [status |-> "ok", gym_id |-> SetMin({g.gym_id : g \in found})]

\* Gym.objects.get(name=name)
GymGet(name) ==
    LET found == {g \in gyms : g.name = name}
    IN  IF found = {} THEN [status |-> "DoesNotExist", gym_id |-> 0]
        ELSE IF Cardinality(found) > 1
        THEN [status |-> "MultipleObjectsReturned", gym_id |-> 0]
        ELSE [status |-> "ok", gym_id |-> (CHOOSE g \in found : TRUE).gym_id]

RowsOf(g) == {r \in crowd : r.gym = g}

Row(id, d) ==
    [crowd_id |-> id, gym |-> d.gym, occupancy |-> d.occupancy,
     percentage_full |-> d.percentage_full, last_updated |-> d.last_updated]

\* the NOT NULL constraint of CrowdData.last_updated
ViolatesNotNull(d) == d.last_updated = NoValue

(***************************************************************************)
(* Runs.  Each process performs runs one after the other; a run is started *)
(* through one of three entry points.                                      *)
(*   pc         idle | extract | update | create | done; done is the end  *)
(*              of a run, its locals still in place, idle the process     *)
(*              between two runs                                           *)
(*   facilities the fragments of the fetched page                          *)
(*   idx        the position of the running loop                           *)
(*   data_list  the entries collected by the first loop                    *)
(*   outcome    none | returned | raised: how the last run ended for its   *)
(*              invoker                                                    *)
(*   log        what the run printed, as <<event, number>> pairs           *)
(*   snapshot   active in a run that repeats the run before it over the    *)
(*              same page, with the CrowdData table as that run left it    *)
(***************************************************************************)
Procs == {"p1", "p2"}

EntryPoints == {"function", "task", "command"}

\* the task calls scraper.py, the command carries its own copy of the code
Impl(ep) == IF ep = "command" THEN "command" ELSE "scraper"

Event(kind, n) == <<kind, n>>

Emit(w, e) == log' = [log EXCEPT ![w] = Append(@, e)]

\* no request in flight
NoRequest == [op |-> "none"]

\* the users application before any request: no user, no token, no
\* preference
AppInit ==
    /\ users = {}
    /\ tokens = {}
    /\ token_seq = 0
    /\ prefs = {}
    /\ req = [w \in Procs |-> NoRequest]

Init ==
    /\ gyms = Registry
    /\ crowd = {}
    /\ next_crowd_id = 1
    /\ pc = [w \in Procs |-> "idle"]
    /\ entrypoint = [w \in Procs |-> "function"]
    /\ facilities = [w \in Procs |-> <<>>]
    /\ idx = [w \in Procs |-> 0]
    /\ data_list = [w \in Procs |-> <<>>]
    /\ outcome = [w \in Procs |-> "none"]
    /\ log = [w \in Procs |-> <<>>]
    /\ snapshot = [active |-> FALSE, crowd |-> {}]
    /\ AppInit

\* FetchFailed with a seeded fault: the status of the response is not looked at
FetchFailedStatusIgnored(resp) == resp.exception

\* requests.get raised, or the status is not 200
FetchFailed(resp) == resp.exception \/ resp.status # 200

\* how a failed fetch ends for the invoker: scrape_gym_data raises, the task
\* and the command catch the exception and print it
FailureOutcome(ep) == IF ep = "function" THEN "raised" ELSE "returned"

\* line 15 prints the status; a request that raised prints nothing here
FirstEvent(resp) ==
    IF resp.exception THEN Event("request_failed", 0)
                      ELSE Event("status", resp.status)

\* lines 14-24: the request, the status check, find_all and data_list = []
Fetch(w, ep, resp) ==
    /\ pc[w] = "idle"
    /\ entrypoint' = [entrypoint EXCEPT ![w] = ep]
    /\ data_list' = [data_list EXCEPT ![w] = <<>>]
    /\ IF FetchFailed(resp)
       THEN /\ pc' = [pc EXCEPT ![w] = "done"]
            /\ outcome' = [outcome EXCEPT ![w] = FailureOutcome(ep)]
            /\ facilities' = [facilities EXCEPT ![w] = <<>>]
            /\ idx' = [idx EXCEPT ![w] = 0]
            /\ log' = [log EXCEPT ![w] = <<FirstEvent(resp)>>]
       ELSE /\ pc' = [pc EXCEPT ![w] = "extract"]
            /\ outcome' = [outcome EXCEPT ![w] = "none"]
            /\ facilities' = [facilities EXCEPT ![w] = resp.body]
            /\ idx' = [idx EXCEPT ![w] = 1]
            /\ log' = [log EXCEPT ![w] = <<FirstEvent(resp)>>]
    /\ UNCHANGED <<gyms, crowd, next_crowd_id, snapshot>>
    /\ UNCHANGED appVars

\* a run is invoked through one of the entry points eps and its request is
\* answered by one of resps
Invoke(w, eps, resps) ==
    /\ pc[w] = "idle"
    /\ \E ep \in eps, resp \in resps : Fetch(w, ep, resp)

\* what one pass of the first loop does with a fragment: "entry" appends to
\* data_list, "no_match" is the continue of line 67, "parse_error" is the
\* except of line 75
Resolve(f, impl) ==
    LET p == Parses[f][impl]
        g == GymGet(p.name)
    IN  IF p.error # "" THEN [kind |-> "parse_error", gym |-> 0, parsed |-> p]
        ELSE IF g.status = "DoesNotExist"
        THEN [kind |-> "no_match", gym |-> 0, parsed |-> p]
        ELSE IF g.status = "MultipleObjectsReturned"
        THEN [kind |-> "parse_error", gym |-> 0, parsed |-> p]
        ELSE [kind |-> "entry", gym |-> g.gym_id, parsed |-> p]

Entry(r) ==
    [gym |-> r.gym, occupancy |-> r.parsed.occupancy,
     percentage_full |-> r.parsed.percentage_full,
     last_updated |-> r.parsed.last_updated]

\* AfterFacility with a seeded fault: the try encloses the loop, an exception ends it
AfterFacilityErrorEndsLoop(i, n, kind) ==
    IF kind = "parse_error" THEN n + 1 ELSE i + 1

\* AfterFacility with a seeded fault: break where the code has continue
AfterFacilityNoMatchEndsLoop(i, n, kind) ==
    IF kind = "no_match" THEN n + 1 ELSE i + 1

\* where the first loop goes after fragment i of n: to the next fragment,
\* whatever happened to this one
AfterFacility(i, n, kind) == i + 1

\* ListAfterAppend with a seeded fault: insert(0, ...) where the code has
\* append
ListAfterAppendInFront(list, e) == <<e>> \o list

\* lines 69-74: data_list.append
ListAfterAppend(list, e) == Append(list, e)

\* lines 26-76: one pass of the first loop
ProcessFacility(w) ==
    /\ pc[w] = "extract"
    /\ idx[w] <= Len(facilities[w])
    /\ LET r == Resolve(facilities[w][idx[w]], Impl(entrypoint[w]))
       IN  /\ data_list' = [data_list EXCEPT ![w] =
                               IF r.kind = "entry" THEN ListAfterAppend(@, Entry(r)) ELSE @]
           /\ Emit(w, Event(r.kind, r.gym))
           /\ idx' = [idx EXCEPT ![w] = AfterFacility(@, Len(facilities[w]), r.kind)]
    /\ UNCHANGED <<gyms, crowd, next_crowd_id, pc, entrypoint, facilities,
                   outcome, snapshot>>
    /\ UNCHANGED appVars

\* line 78: the first loop is over
BeginUpdate(w) ==
    /\ pc[w] = "extract"
    /\ idx[w] > Len(facilities[w])
    /\ pc' = [pc EXCEPT ![w] = "update"]
    /\ idx' = [idx EXCEPT ![w] = 1]
    /\ UNCHANGED <<gyms, crowd, next_crowd_id, entrypoint, facilities,
                   data_list, outcome, log, snapshot>>
    /\ UNCHANGED appVars

\* AfterUpsert with a seeded fault: an upsert that raised is tried again
AfterUpsertRetry(i, n, raised) == IF raised THEN i ELSE i + 1

\* AfterUpsert with a seeded fault: the try encloses the loop, an exception ends it
AfterUpsertErrorEndsLoop(i, n, raised) == IF raised THEN n + 1 ELSE i + 1

\* where the second loop goes after the upsert attempt of entry i of n: to
\* the next entry, whether the attempt succeeded or raised
AfterUpsert(i, n, raised) == i + 1

\* what update_or_create can raise
DbErrors == {"OperationalError", "IntegrityError", "MultipleObjectsReturned"}

\* TableAfterError with a seeded fault: the second loop runs in one
\* transaction, a failing upsert rolls back the rows of the entries before it
TableAfterErrorRolledBack(w) ==
    {r \in crowd : \A k \in 1..(idx[w] - 1) : data_list[w][k].gym # r.gym}

\* the table after an upsert has raised: the transaction of update_or_create
\* covers that one call, the upserts before it are committed and stay
TableAfterError(w) == crowd

\* the except of line 92, which prints the exception
DbError(w, exc) ==
    /\ Emit(w, Event(exc, data_list[w][idx[w]].gym))
    /\ pc' = [pc EXCEPT ![w] = "update"]
    /\ idx' = [idx EXCEPT ![w] = AfterUpsert(@, Len(data_list[w]), TRUE)]
    /\ crowd' = TableAfterError(w)
    /\ UNCHANGED next_crowd_id

\* TableAfterSave with a seeded fault: objects.create where the code has
\* update_or_create, every reading is appended
TableAfterSaveAppended(row, d) == crowd \cup {Row(next_crowd_id, d)}

\* the table after update_or_create has saved the defaults over the row found
TableAfterSave(row, d) == (crowd \ {row}) \cup {Row(row.crowd_id, d)}

\* lines 83-90, first part: update_or_create opens a transaction and looks the
\* gym's row up with SELECT ... FOR UPDATE.  One row: it is locked, so the
\* save of the defaults belongs to the same step.  No row: the INSERT is a
\* later step, and nothing is locked in between.  fault is a storage failure.
UpsertGet(w, faults) ==
    /\ pc[w] = "update"
    /\ idx[w] <= Len(data_list[w])
    /\ \E fault \in faults :
         LET d    == data_list[w][idx[w]]
             rows == RowsOf(d.gym)
         IN  IF fault THEN DbError(w, "OperationalError")
             ELSE IF Cardinality(rows) > 1
             THEN DbError(w, "MultipleObjectsReturned")
             ELSE IF rows = {}
             THEN /\ pc' = [pc EXCEPT ![w] = "create"]
                  /\ UNCHANGED <<crowd, next_crowd_id, idx, log>>
             ELSE IF ViolatesNotNull(d)
             THEN DbError(w, "IntegrityError")
             ELSE LET row == CHOOSE r \in rows : TRUE
                  IN  /\ crowd' = TableAfterSave(row, d)
                      /\ Emit(w, Event("updated", d.gym))
                      /\ pc' = [pc EXCEPT ![w] = "update"]
                      /\ idx' = [idx EXCEPT ![w] = AfterUpsert(@, Len(data_list[w]), FALSE)]
                      /\ UNCHANGED next_crowd_id
    /\ UNCHANGED <<gyms, entrypoint, facilities, data_list, outcome, snapshot>>
    /\ UNCHANGED appVars

\* lines 83-90, second part: the INSERT of get_or_create.  A NULL
\* last_updated raises IntegrityError; get_or_create then looks the row up
\* again, and whatever it finds, the save of the same defaults raises again.
UpsertCreate(w, faults) ==
    /\ pc[w] = "create"
    /\ \E fault \in faults :
         LET d == data_list[w][idx[w]]
         IN  IF fault THEN DbError(w, "OperationalError")
             ELSE IF ViolatesNotNull(d) THEN DbError(w, "IntegrityError")
             ELSE /\ crowd' = crowd \cup {Row(next_crowd_id, d)}
                  /\ next_crowd_id' = next_crowd_id + 1
                  /\ Emit(w, Event("created", d.gym))
                  /\ pc' = [pc EXCEPT ![w] = "update"]
                  /\ idx' = [idx EXCEPT ![w] = AfterUpsert(@, Len(data_list[w]), FALSE)]
    /\ UNCHANGED <<gyms, entrypoint, facilities, data_list, outcome, snapshot>>
    /\ UNCHANGED appVars

\* the second loop is over: the run returns None
Finish(w) ==
    /\ pc[w] = "update"
    /\ idx[w] > Len(data_list[w])
    /\ pc' = [pc EXCEPT ![w] = "done"]
    /\ outcome' = [outcome EXCEPT ![w] = "returned"]
    /\ UNCHANGED <<gyms, crowd, next_crowd_id, entrypoint, facilities, idx,
                   data_list, log, snapshot>>
    /\ UNCHANGED appVars

\* the invoker has the outcome; the locals of the run are dropped
Exit(w) ==
    /\ pc[w] = "done"
    /\ pc' = [pc EXCEPT ![w] = "idle"]
    /\ entrypoint' = [entrypoint EXCEPT ![w] = "function"]
    /\ facilities' = [facilities EXCEPT ![w] = <<>>]
    /\ idx' = [idx EXCEPT ![w] = 0]
    /\ data_list' = [data_list EXCEPT ![w] = <<>>]
    /\ outcome' = [outcome EXCEPT ![w] = "none"]
    /\ log' = [log EXCEPT ![w] = <<>>]
    /\ snapshot' = [active |-> FALSE, crowd |-> {}]
    /\ UNCHANGED <<gyms, crowd, next_crowd_id>>
    /\ UNCHANGED appVars

\* the next scheduled run finds the page unchanged: the same fragments are
\* processed again, right after the run before
Rerun(w) ==
    /\ pc[w] = "done"
    /\ log[w][1] = Event("status", 200)
    /\ ~snapshot.active
    /\ pc' = [pc EXCEPT ![w] = "extract"]
    /\ outcome' = [outcome EXCEPT ![w] = "none"]
    /\ idx' = [idx EXCEPT ![w] = 1]
    /\ data_list' = [data_list EXCEPT ![w] = <<>>]
    /\ log' = [log EXCEPT ![w] = <<Event("status", 200)>>]
    /\ snapshot' = [active |-> TRUE, crowd |-> crowd]
    /\ UNCHANGED <<gyms, crowd, next_crowd_id, entrypoint, facilities>>
    /\ UNCHANGED appVars

(***************************************************************************)
(* Spec: one process, runs one after the other, through any entry point,   *)
(* over any page, with storage failures.                                   *)
(***************************************************************************)
SeqResponses == Responses(PagesOf(Fragments, MaxPage))

Next ==
    \/ Invoke("p1", EntryPoints, SeqResponses)
    \/ ProcessFacility("p1")
    \/ BeginUpdate("p1")
    \/ UpsertGet("p1", BOOLEAN)
    \/ UpsertCreate("p1", BOOLEAN)
    \/ Finish("p1")
    \/ Exit("p1")

Spec == Init /\ [][Next]_vars

(***************************************************************************)
(* SpecTwice: one process, working storage, and runs that repeat the run   *)
(* before them over the same page.                                         *)
(***************************************************************************)
NextTwice ==
    \/ Invoke("p1", {"task"}, SeqResponses)
    \/ ProcessFacility("p1")
    \/ BeginUpdate("p1")
    \/ UpsertGet("p1", {FALSE})
    \/ UpsertCreate("p1", {FALSE})
    \/ Finish("p1")
    \/ Rerun("p1")
    \/ Exit("p1")

SpecTwice == Init /\ [][NextTwice]_vars

(***************************************************************************)
(* SpecConc: two processes whose runs overlap, working storage.            *)
(***************************************************************************)
ConcResponses ==
    {[exception |-> FALSE, status |-> 200, body |-> b] :
        b \in PagesOf(ConcFragments, MaxConcPage)}

NextConc ==
    \E w \in Procs :
        \/ Invoke(w, {"task"}, ConcResponses)
        \/ ProcessFacility(w)
        \/ BeginUpdate(w)
        \/ UpsertGet(w, {FALSE})
        \/ UpsertCreate(w, {FALSE})
        \/ Finish(w)
        \/ Exit(w)

SpecConc == Init /\ [][NextConc]_vars

(***************************************************************************)
(* SpecNames: one process, working storage, any of the registries, pages   *)
(* whose fragments differ in their name prefix.                            *)
(***************************************************************************)
InitNames ==
    /\ gyms \in Registries
    /\ crowd = {}
    /\ next_crowd_id = 1
    /\ pc = [w \in Procs |-> "idle"]
    /\ entrypoint = [w \in Procs |-> "function"]
    /\ facilities = [w \in Procs |-> <<>>]
    /\ idx = [w \in Procs |-> 0]
    /\ data_list = [w \in Procs |-> <<>>]
    /\ outcome = [w \in Procs |-> "none"]
    /\ log = [w \in Procs |-> <<>>]
    /\ snapshot = [active |-> FALSE, crowd |-> {}]
    /\ AppInit

NameResponses ==
    {[exception |-> FALSE, status |-> 200, body |-> b] :
        b \in PagesOf(NameFragments, MaxNamePage)}

NextNames ==
    \/ Invoke("p1", EntryPoints, NameResponses)
    \/ ProcessFacility("p1")
    \/ BeginUpdate("p1")
    \/ UpsertGet("p1", {FALSE})
    \/ UpsertCreate("p1", {FALSE})
    \/ Finish("p1")
    \/ Exit("p1")

SpecNames == InitNames /\ [][NextNames]_vars

(***************************************************************************)
(* SpecFields: one process, working storage, pages whose fragments run     *)
(* through the combinations of field texts.                                *)
(***************************************************************************)
FieldResponses ==
    {[exception |-> FALSE, status |-> 200, body |-> b] :
        b \in PagesOf(FieldFragments, MaxFieldPage)}

NextFields ==
    \/ Invoke("p1", EntryPoints, FieldResponses)
    \/ ProcessFacility("p1")
    \/ BeginUpdate("p1")
    \/ UpsertGet("p1", {FALSE})
    \/ UpsertCreate("p1", {FALSE})
    \/ Finish("p1")
    \/ Exit("p1")

SpecFields == Init /\ [][NextFields]_vars

(***************************************************************************)
(* populate_data: Command.populate_gyms (and scripts/gyms.py, the same     *)
(* code).  A run reads the names the Gym table holds, updates the rows of  *)
(* the dataset names it found, and bulk-inserts the others.  The whole is  *)
(* in one try: an exception is logged and ends the run.                    *)
(*   req[w]  [op |-> "populate", phase, existing, i, error]                *)
(***************************************************************************)
DatasetNames == {GymData[k].name : k \in 1..Len(GymData)}

\* NewRows with a seeded fault: every dataset row is inserted
NewRowsAll(existing) == 1..Len(GymData)

\* the dataset rows populate_gyms inserts: those whose name was not found
\* when the table was read

NewRows(existing) == {k \in 1..Len(GymData) : GymData[k].name \notin existing}

MaxGymId == IF gyms = {} THEN 0 ELSE CHOOSE m \in {g.gym_id : g \in gyms} :
                                        \A g \in gyms : g.gym_id <= m

\* line 172: existing_gyms = set(Gym.objects.values_list('name', flat=True))
PopulateRead(w, faults) ==
    /\ req[w] = NoRequest
    /\ \E fault \in faults :
         req' = [req EXCEPT ![w] =
                    [op |-> "populate",
                     phase |-> IF fault THEN "done" ELSE "update",
                     existing |-> {g.name : g \in gyms},
                     i |-> 1,
                     error |-> fault]]
    /\ UNCHANGED <<gyms, crowd, next_crowd_id, scrapeVars, users, tokens,
                   token_seq, prefs>>

\* lines 178-180: for the dataset rows found, filter(name=...).update(...)
\* rewrites location and type of every row that bears the name
PopulateUpdate(w, faults) ==
    /\ req[w].op = "populate"
    /\ req[w].phase = "update"
    /\ req[w].i <= Len(GymData)
    /\ LET d == GymData[req[w].i]
       IN  IF d.name \in req[w].existing
           THEN \E fault \in faults :
                  IF fault
                  THEN /\ req' = [req EXCEPT ![w].phase = "done", ![w].error = TRUE]
                       /\ UNCHANGED gyms
                  ELSE /\ gyms' = {IF g.name = d.name
                                   THEN GymRow(g.gym_id, d) ELSE g : g \in gyms}
                       /\ req' = [req EXCEPT ![w].i = @ + 1]
           ELSE /\ req' = [req EXCEPT ![w].i = @ + 1]
                /\ UNCHANGED gyms
    /\ UNCHANGED <<crowd, next_crowd_id, scrapeVars, users, tokens, token_seq, prefs>>

\* the position of dataset row k among the rows to insert
RankIn(S, k) == Cardinality({j \in S : j <= k})

\* lines 184-185: bulk_create of the rows not found, one INSERT
PopulateInsert(w, faults) ==
    /\ req[w].op = "populate"
    /\ req[w].phase = "update"
    /\ req[w].i > Len(GymData)
    /\ \E fault \in faults :
         IF fault
         THEN /\ req' = [req EXCEPT ![w].phase = "done", ![w].error = TRUE]
              /\ UNCHANGED gyms
         ELSE LET new == NewRows(req[w].existing)
              IN  /\ gyms' = gyms \cup
                        {GymRow(MaxGymId + RankIn(new, k), GymData[k]) : k \in new}
                  /\ req' = [req EXCEPT ![w].phase = "done"]
    /\ UNCHANGED <<crowd, next_crowd_id, scrapeVars, users, tokens, token_seq, prefs>>

\* the command returns
PopulateExit(w) ==
    /\ req[w].op = "populate"
    /\ req[w].phase = "done"
    /\ req' = [req EXCEPT ![w] = NoRequest]
    /\ UNCHANGED <<gyms, crowd, next_crowd_id, scrapeVars, users, tokens,
                   token_seq, prefs>>

(***************************************************************************)
(* SpecPopulate: populate_data run again and again, one run after the      *)
(* other, over a Gym table that holds none, some or all of the dataset     *)
(* gyms, with the location of the dataset or an older one.                 *)
(***************************************************************************)
OlderData(k) == [GymData[k] EXCEPT !.location = "old address"]

\* per dataset gym: no row, a row with an older location, a row as in the
\* dataset; and possibly a gym that is not of the dataset
StartRows(k) == {{}, {GymRow(k, OlderData(k))}, {GymRow(k, GymData[k])}}

StartTables ==
    {r1 \cup r2 \cup extra :
        r1 \in StartRows(1), r2 \in StartRows(2), extra \in {{}, {UnknownGym}}}

ScrapeIdle ==
    /\ pc = [w \in Procs |-> "idle"]
    /\ entrypoint = [w \in Procs |-> "function"]
    /\ facilities = [w \in Procs |-> <<>>]
    /\ idx = [w \in Procs |-> 0]
    /\ data_list = [w \in Procs |-> <<>>]
    /\ outcome = [w \in Procs |-> "none"]
    /\ log = [w \in Procs |-> <<>>]
    /\ snapshot = [active |-> FALSE, crowd |-> {}]

InitPopulate ==
    /\ gyms \in StartTables
    /\ crowd = {}
    /\ next_crowd_id = 1
    /\ ScrapeIdle
    /\ AppInit

NextPopulate ==
    \/ PopulateRead("p1", BOOLEAN)
    \/ PopulateUpdate("p1", BOOLEAN)
    \/ PopulateInsert("p1", BOOLEAN)
    \/ PopulateExit("p1")

SpecPopulate == InitPopulate /\ [][NextPopulate]_vars

(***************************************************************************)
(* users: UserSignUpView.post.  The view runs three statements, each in    *)
(* its own autocommit transaction: two exists() queries and the INSERT of  *)
(* user.save().  User.username and User.email are unique columns: an       *)
(* INSERT that repeats one raises IntegrityError, which the view does not  *)
(* catch, so the request is answered with status 500.                      *)
(*   users   rows [user_id, username, email, password]                     *)
(*   req[w]  [op |-> "signup", phase, username, email, password, status,   *)
(*            created]                                                     *)
(***************************************************************************)
Usernames == {"amy", "bob"}
Emails == {"amy@cornell.edu", "bob@cornell.edu"}
Passwords == {"pw"}

HTTP_200 == 200
HTTP_201 == 201
HTTP_400 == 400
HTTP_401 == 401
HTTP_404 == 404
HTTP_500 == 500

UserRow(id, u, e, p) == [user_id |-> id, username |-> u, email |-> e, password |-> p]

\* the unique constraints of the user table on a new row
ViolatesUnique(u, e) == \E x \in users : x.username = u \/ x.email = e

\* User.user_id is an AutoField; no view deletes a user
NextUserId == Cardinality(users) + 1

SignUpDone(w, st, made) ==
    [req EXCEPT ![w].phase = "done", ![w].status = st, ![w].created = made]

\* lines 106-121: the required fields, then filter(email=email).exists()
SignUpBegin(w) ==
    /\ req[w] = NoRequest
    /\ \E u \in Usernames \cup {""}, e \in Emails, p \in Passwords :
         LET r == [op |-> "signup", phase |-> "username", username |-> u,
                   email |-> e, password |-> p, status |-> 0, created |-> FALSE]
         IN  req' = [req EXCEPT ![w] =
                       IF u = "" \/ \E x \in users : x.email = e
                       THEN [r EXCEPT !.phase = "done", !.status = HTTP_400]
                       ELSE r]
    /\ UNCHANGED <<gyms, crowd, next_crowd_id, scrapeVars, users, tokens,
                   token_seq, prefs>>

\* lines 123-127: filter(username=username).exists()
SignUpCheckUsername(w) ==
    /\ req[w].op = "signup"
    /\ req[w].phase = "username"
    /\ req' = IF \E x \in users : x.username = req[w].username
              THEN SignUpDone(w, HTTP_400, FALSE)
              ELSE [req EXCEPT ![w].phase = "save"]
    /\ UNCHANGED <<gyms, crowd, next_crowd_id, scrapeVars, users, tokens,
                   token_seq, prefs>>

\* lines 129-144: user.save() and the 201 response
SignUpSave(w) ==
    /\ req[w].op = "signup"
    /\ req[w].phase = "save"
    /\ IF ViolatesUnique(req[w].username, req[w].email)
       THEN /\ req' = SignUpDone(w, HTTP_500, FALSE)
            /\ UNCHANGED users
       ELSE /\ users' = users \cup {UserRow(NextUserId, req[w].username,
                                             req[w].email, req[w].password)}
            /\ req' = SignUpDone(w, HTTP_201, TRUE)
    /\ UNCHANGED <<gyms, crowd, next_crowd_id, scrapeVars, tokens, token_seq, prefs>>

\* the response has been sent
Respond(w) ==
    /\ req[w].op \in {"signup", "token", "logout", "preference", "crowddata"}
    /\ req[w].phase = "done"
    /\ req' = [req EXCEPT ![w] = NoRequest]
    /\ UNCHANGED <<gyms, crowd, next_crowd_id, scrapeVars, users, tokens,
                   token_seq, prefs>>

(***************************************************************************)
(* users: ObtainAuthTokenWithUserDetails.post and UserLogoutView.post.     *)
(* Token is the model of rest_framework.authtoken: key is the primary      *)
(* key, a fresh random string, and user a OneToOneField.                   *)
(*   tokens  rows [key, user]; keys are the numbers 1..token_seq           *)
(*   req[w]  [op |-> "token", phase, user, key, deleted, status]           *)
(*           [op |-> "logout", phase, user, key, status]                   *)
(***************************************************************************)
MaxTokens == 3

NoUser == 0

\* django.contrib.auth.authenticate: the user of these credentials, if any
Authenticate(u, p) ==
    IF \E x \in users : x.username = u /\ x.password = p
    THEN (CHOOSE x \in users : x.username = u /\ x.password = p).user_id
    ELSE NoUser

TokensOf(u) == {t \in tokens : t.user = u}

\* TokensAfterDelete with a seeded fault: the earlier tokens are kept
TokensAfterDeleteNone(u) == tokens

\* line 217: Token.objects.filter(user=user).delete()
TokensAfterDelete(u) == tokens \ TokensOf(u)

\* lines 204-215: the required fields, authenticate, user.save()
TokenBegin(w) ==
    /\ req[w] = NoRequest
    /\ token_seq < MaxTokens
    /\ \E u \in Usernames \cup {""}, p \in Passwords \cup {"wrong"} :
         LET r == [op |-> "token", phase |-> "delete", user |-> Authenticate(u, p),
                   key |-> 0, deleted |-> 0, status |-> 0]
         IN  req' = [req EXCEPT ![w] =
                       IF u = "" THEN [r EXCEPT !.phase = "done", !.status = HTTP_400,
                                                !.user = NoUser]
                       ELSE IF r.user = NoUser
                            THEN [r EXCEPT !.phase = "done", !.status = HTTP_401]
                            ELSE r]
    /\ UNCHANGED <<gyms, crowd, next_crowd_id, scrapeVars, users, tokens,
                   token_seq, prefs>>

\* line 217
TokenDelete(w) ==
    /\ req[w].op = "token"
    /\ req[w].phase = "delete"
    /\ tokens' = TokensAfterDelete(req[w].user)
    /\ req' = [req EXCEPT ![w].phase = "create",
                          ![w].deleted = Cardinality(TokensOf(req[w].user))]
    /\ UNCHANGED <<gyms, crowd, next_crowd_id, scrapeVars, users, token_seq, prefs>>

\* lines 218-224: Token.objects.create(user=user); the user column is unique
TokenCreate(w) ==
    /\ req[w].op = "token"
    /\ req[w].phase = "create"
    /\ token_seq' = token_seq + 1
    /\ IF TokensOf(req[w].user) # {}
       THEN /\ req' = [req EXCEPT ![w].phase = "done", ![w].status = HTTP_500]
            /\ UNCHANGED tokens
       ELSE /\ tokens' = tokens \cup {[key |-> token_seq + 1, user |-> req[w].user]}
            /\ req' = [req EXCEPT ![w].phase = "done", ![w].status = HTTP_200,
                                  ![w].key = token_seq + 1]
    /\ UNCHANGED <<gyms, crowd, next_crowd_id, scrapeVars, users, prefs>>

\* line 170: request.user.auth_token, for the authenticated user of the
\* request; Token.DoesNotExist is answered 400
LogoutBegin(w) ==
    /\ req[w] = NoRequest
    /\ \E x \in users :
         LET r == [op |-> "logout", phase |-> "delete", user |-> x.user_id,
                   key |-> 0, status |-> 0]
         IN  req' = [req EXCEPT ![w] =
                       IF TokensOf(x.user_id) = {}
                       THEN [r EXCEPT !.phase = "done", !.status = HTTP_400]
                       ELSE [r EXCEPT !.key = (CHOOSE t \in TokensOf(x.user_id) : TRUE).key]]
    /\ UNCHANGED <<gyms, crowd, next_crowd_id, scrapeVars, users, tokens,
                   token_seq, prefs>>

\* lines 170-174: .delete() of the token that was read, and the 200 response
LogoutDelete(w) ==
    /\ req[w].op = "logout"
    /\ req[w].phase = "delete"
    /\ tokens' = {t \in tokens : t.key # req[w].key}
    /\ req' = [req EXCEPT ![w].phase = "done", ![w].status = HTTP_200]
    /\ UNCHANGED <<gyms, crowd, next_crowd_id, scrapeVars, users, token_seq, prefs>>

(***************************************************************************)
(* users: UserPreferenceListCreateView and UserPreferenceDetailView, the   *)
(* generic views of the framework over UserPreferenceSerializer.  The      *)
(* serializer's writable fields are user and max_crowd_level; gym is       *)
(* read-only, so no request can set it.                                    *)
(*   prefs   rows [preference_id, user, gym, max_crowd_level, creator];    *)
(*           creator is not a column: it records whose row it was made     *)
(*   req[w]  [op |-> "preference", phase, method, user, pk, status]        *)
(***************************************************************************)
Levels == {5, 7}

PrefRow(id, u, g, l, c) ==
    [preference_id |-> id, user |-> u, gym |-> g, max_crowd_level |-> l,
     creator |-> c]

\* get_queryset: UserPreference.objects.filter(user=self.request.user)
PrefQueryset(u) == {r \in prefs : r.user = u}

PrefAnswer(w, method, u, pk, st) ==
    [req EXCEPT ![w] = [op |-> "preference", phase |-> "done", method |-> method,
                        user |-> u, pk |-> pk, status |-> st]]

PrefIds == {1, 2}

\* GET /preferences/
PrefList(w) ==
    /\ req[w] = NoRequest
    /\ \E x \in users : req' = PrefAnswer(w, "list", x.user_id, 0, HTTP_200)
    /\ UNCHANGED <<gyms, crowd, next_crowd_id, scrapeVars, users, tokens,
                   token_seq, prefs>>

\* POST /preferences/: the serializer requires user and max_crowd_level;
\* perform_create saves with user = request.user and without a gym, and
\* the INSERT violates NOT NULL on gym_id: IntegrityError, status 500
PrefCreate(w) ==
    /\ req[w] = NoRequest
    /\ \E x \in users, du \in {y.user_id : y \in users} \cup {NoUser} :
         req' = PrefAnswer(w, "create", x.user_id, 0,
                           IF du = NoUser THEN HTTP_400 ELSE HTTP_500)
    /\ UNCHANGED <<gyms, crowd, next_crowd_id, scrapeVars, users, tokens,
                   token_seq, prefs>>

\* GET /preferences/<pk>/
PrefRetrieve(w) ==
    /\ req[w] = NoRequest
    /\ \E x \in users, pk \in PrefIds :
         req' = PrefAnswer(w, "retrieve", x.user_id, pk,
                    IF \E r \in PrefQueryset(x.user_id) : r.preference_id = pk
                    THEN HTTP_200 ELSE HTTP_404)
    /\ UNCHANGED <<gyms, crowd, next_crowd_id, scrapeVars, users, tokens,
                   token_seq, prefs>>

\* the row after serializer.save() of an update: the validated fields are
\* assigned, user among them when the request carries it
PrefUpdated(r, u, du, l) ==
    [r EXCEPT !.max_crowd_level = l, !.user = IF du = NoUser THEN @ ELSE du]

\* PUT, PATCH /preferences/<pk>/: perform_update is the framework's,
\* serializer.save() with the validated data (du = NoUser: a PATCH without
\* the user field)
PrefUpdate(w) ==
    /\ req[w] = NoRequest
    /\ \E x \in users, pk \in PrefIds, l \in Levels,
          du \in {y.user_id : y \in users} \cup {NoUser} :
         IF \E r \in PrefQueryset(x.user_id) : r.preference_id = pk
         THEN LET r == CHOOSE r \in PrefQueryset(x.user_id) : r.preference_id = pk
              IN  /\ prefs' = (prefs \ {r}) \cup {PrefUpdated(r, x.user_id, du, l)}
                  /\ req' = PrefAnswer(w, "update", x.user_id, pk, HTTP_200)
         ELSE /\ req' = PrefAnswer(w, "update", x.user_id, pk, HTTP_404)
              /\ UNCHANGED prefs
    /\ UNCHANGED <<gyms, crowd, next_crowd_id, scrapeVars, users, tokens, token_seq>>

\* DELETE /preferences/<pk>/
PrefDestroy(w) ==
    /\ req[w] = NoRequest
    /\ \E x \in users, pk \in PrefIds :
         IF \E r \in PrefQueryset(x.user_id) : r.preference_id = pk
         THEN /\ prefs' = {r \in prefs : r.preference_id # pk}
              /\ req' = PrefAnswer(w, "destroy", x.user_id, pk, HTTP_200)
         ELSE /\ req' = PrefAnswer(w, "destroy", x.user_id, pk, HTTP_404)
              /\ UNCHANGED prefs
    /\ UNCHANGED <<gyms, crowd, next_crowd_id, scrapeVars, users, tokens, token_seq>>

(***************************************************************************)
(* gyms: CrowdDataListView and CrowdDataDetailView, the generic views of   *)
(* the framework over CrowdDataSerializer (fields crowd_id, gym,           *)
(* occupancy, last_updated), open to every client.  A request is one       *)
(* statement; it is served while no scrape run is under way.               *)
(*   req[w]  [op |-> "crowddata", phase, method, pk, status]               *)
(***************************************************************************)
MaxApiRows == 3

HTTP_204 == 204

NoRunUnderWay == \A w \in Procs : pc[w] = "idle"

CrowdAnswer(w, method, pk, st) ==
    [req EXCEPT ![w] = [op |-> "crowddata", phase |-> "done", method |-> method,
                        pk |-> pk, status |-> st]]

\* the bodies a client posts: a gym key, held by the registry or not, an
\* occupancy and a timestamp
PostedGyms == {1, 2, 9}

PostedData(g) ==
    [gym |-> g, occupancy |-> 5, percentage_full |-> NoValue,
     last_updated |-> Parses[NoyesLater]["scraper"].last_updated]

\* POST /gyms/crowddata/: the serializer checks that the gym exists, and
\* the row is inserted; CrowdData.gym is a plain foreign key
ApiPost(w) ==
    /\ req[w] = NoRequest
    /\ NoRunUnderWay
    /\ next_crowd_id <= MaxApiRows
    /\ \E g \in PostedGyms :
         IF g \in GymIds
         THEN /\ crowd' = crowd \cup {Row(next_crowd_id, PostedData(g))}
              /\ next_crowd_id' = next_crowd_id + 1
              /\ req' = CrowdAnswer(w, "create", next_crowd_id, HTTP_201)
         ELSE /\ req' = CrowdAnswer(w, "create", 0, HTTP_400)
              /\ UNCHANGED <<crowd, next_crowd_id>>
    /\ UNCHANGED <<gyms, scrapeVars, users, tokens, token_seq, prefs>>

\* DELETE /gyms/crowddata/<pk>/
ApiDelete(w) ==
    /\ req[w] = NoRequest
    /\ NoRunUnderWay
    /\ next_crowd_id <= MaxApiRows
    /\ \E pk \in 1..MaxApiRows :
         /\ crowd' = {r \in crowd : r.crowd_id # pk}
         /\ req' = CrowdAnswer(w, "destroy", pk,
                       IF \E r \in crowd : r.crowd_id = pk THEN HTTP_204 ELSE HTTP_404)
    /\ UNCHANGED <<gyms, next_crowd_id, scrapeVars, users, tokens, token_seq, prefs>>

(***************************************************************************)
(* SpecSignUp: sign-up requests served by two workers at once.             *)
(***************************************************************************)
NextSignUp ==
    \E w \in Procs :
        \/ SignUpBegin(w)
        \/ SignUpCheckUsername(w)
        \/ SignUpSave(w)
        \/ Respond(w)

SpecSignUp == Init /\ [][NextSignUp]_vars

(***************************************************************************)
(* SpecTokens: token and logout requests, one after the other, of two      *)
(* registered users.                                                       *)
(***************************************************************************)
Registered == {UserRow(1, "amy", "amy@cornell.edu", "pw"),
               UserRow(2, "bob", "bob@cornell.edu", "pw")}

InitTokens ==
    /\ gyms = Registry
    /\ crowd = {}
    /\ next_crowd_id = 1
    /\ ScrapeIdle
    /\ users = Registered
    /\ tokens = {}
    /\ token_seq = 0
    /\ prefs = {}
    /\ req = [w \in Procs |-> NoRequest]

NextTokens ==
    \/ TokenBegin("p1")
    \/ TokenDelete("p1")
    \/ TokenCreate("p1")
    \/ LogoutBegin("p1")
    \/ LogoutDelete("p1")
    \/ Respond("p1")

SpecTokens == InitTokens /\ [][NextTokens]_vars

(***************************************************************************)
(* SpecPrefs: preference requests of two registered users.  No request     *)
(* can create a preference (POST fails), so the rows there are were made   *)
(* outside the API (admin, shell), each for its user.                      *)
(***************************************************************************)
StartPrefs ==
    {a \cup b : a \in {{}, {PrefRow(1, 1, 1, 5, 1)}},
                b \in {{}, {PrefRow(2, 2, 2, 7, 2)}}}

InitPrefs ==
    /\ gyms = Registry
    /\ crowd = {}
    /\ next_crowd_id = 1
    /\ ScrapeIdle
    /\ users = Registered
    /\ tokens = {}
    /\ token_seq = 0
    /\ prefs \in StartPrefs
    /\ req = [w \in Procs |-> NoRequest]

NextPrefs ==
    \/ PrefList("p1")
    \/ PrefCreate("p1")
    \/ PrefRetrieve("p1")
    \/ PrefUpdate("p1")
    \/ PrefDestroy("p1")
    \/ Respond("p1")

SpecPrefs == InitPrefs /\ [][NextPrefs]_vars

(***************************************************************************)
(* SpecEquiv: the function of scraper.py runs over a page, with working    *)
(* storage; then the management command runs over the same page from the   *)
(* store the function started from.  snapshot.crowd holds the start store  *)
(* while the function runs, and the function's final store afterwards.     *)
(***************************************************************************)
MaxEquivPage == 2

EmptyCount == FieldWidget(<<>>, Stamp1, Some(<<"6", "4", "%">>))

\* well-formed, an empty name, an empty count, an unmatched name
EquivFragments == {NoyesFull, NoName, EmptyCount, NoyesAnnex}

EquivResponses ==
    {[exception |-> FALSE, status |-> 200, body |-> b] :
        b \in PagesOf(EquivFragments, MaxEquivPage)}

\* a record an earlier run left for the first gym
EarlierRow ==
    LET q == Parses[NoyesLater]["scraper"]
    IN  Row(1, [gym |-> 1, occupancy |-> q.occupancy,
                percentage_full |-> q.percentage_full,
                last_updated |-> q.last_updated])

StartStores == {{}, {EarlierRow}}

InitEquiv ==
    /\ gyms \in Registries
    /\ crowd \in StartStores
    /\ next_crowd_id = Cardinality(crowd) + 1
    /\ pc = [w \in Procs |-> "idle"]
    /\ entrypoint = [w \in Procs |-> "function"]
    /\ facilities = [w \in Procs |-> <<>>]
    /\ idx = [w \in Procs |-> 0]
    /\ data_list = [w \in Procs |-> <<>>]
    /\ outcome = [w \in Procs |-> "none"]
    /\ log = [w \in Procs |-> <<>>]
    /\ snapshot = [active |-> FALSE, crowd |-> crowd]
    /\ AppInit

\* the function has returned: the command is run over the same fragments
\* from the store the function started from
Replay(w) ==
    /\ pc[w] = "done"
    /\ entrypoint[w] = "function"
    /\ ~snapshot.active
    /\ snapshot' = [active |-> TRUE, crowd |-> crowd]
    /\ crowd' = snapshot.crowd
    /\ next_crowd_id' = Cardinality(snapshot.crowd) + 1
    /\ entrypoint' = [entrypoint EXCEPT ![w] = "command"]
    /\ pc' = [pc EXCEPT ![w] = "extract"]
    /\ outcome' = [outcome EXCEPT ![w] = "none"]
    /\ idx' = [idx EXCEPT ![w] = 1]
    /\ data_list' = [data_list EXCEPT ![w] = <<>>]
    /\ log' = [log EXCEPT ![w] = <<Event("status", 200)>>]
    /\ UNCHANGED <<gyms, facilities>>
    /\ UNCHANGED appVars

NextEquiv ==
    \/ Invoke("p1", {"function"}, EquivResponses)
    \/ ProcessFacility("p1")
    \/ BeginUpdate("p1")
    \/ UpsertGet("p1", {FALSE})
    \/ UpsertCreate("p1", {FALSE})
    \/ Finish("p1")
    \/ Replay("p1")

SpecEquiv == InitEquiv /\ [][NextEquiv]_vars

(***************************************************************************)
(* SpecApi: scrape runs with working storage over pages of well-formed     *)
(* fragments of a registered gym, and crowd-data requests between them.    *)
(***************************************************************************)
MaxApiPage == 1

ApiResponses ==
    {[exception |-> FALSE, status |-> 200, body |-> b] :
        b \in PagesOf(ConcFragments, MaxApiPage)}

NextApi ==
    \/ Invoke("p1", {"task"}, ApiResponses)
    \/ ProcessFacility("p1")
    \/ BeginUpdate("p1")
    \/ UpsertGet("p1", {FALSE})
    \/ UpsertCreate("p1", {FALSE})
    \/ Finish("p1")
    \/ Exit("p1")
    \/ ApiPost("p2")
    \/ ApiDelete("p2")
    \/ Respond("p2")

SpecApi == Init /\ [][NextApi]_vars

(***************************************************************************)
(* SpecDup: one process, working storage, a registry in which two gyms     *)
(* bear the same name (Gym.name is not unique).                            *)
(***************************************************************************)
MaxDupPage == 2

DuplicateGym == GymRow(4, GymData[1])

\* a fragment of the doubled name, of another gym, of no gym, a malformed one
DupFragments == {NoyesFull, TeagleNA, Downtown, BadValue}

DupResponses ==
    {[exception |-> FALSE, status |-> 200, body |-> b] :
        b \in PagesOf(DupFragments, MaxDupPage)}

InitDup ==
    /\ gyms = Registry \cup {DuplicateGym}
    /\ crowd = {}
    /\ next_crowd_id = 1
    /\ ScrapeIdle
    /\ AppInit

NextDup ==
    \/ Invoke("p1", EntryPoints, DupResponses)
    \/ ProcessFacility("p1")
    \/ BeginUpdate("p1")
    \/ UpsertGet("p1", {FALSE})
    \/ UpsertCreate("p1", {FALSE})
    \/ Finish("p1")
    \/ Exit("p1")

SpecDup == InitDup /\ [][NextDup]_vars

(***************************************************************************)
(* SpecLive: Spec over smaller pages, with the run's own steps weakly      *)
(* fair.  A run is one thread of straight-line code: once requests.get has *)
(* returned, each step of the two loops is taken as soon as the one before *)
(* has returned, and every call to the database returns, with a result or  *)
(* with an exception.  When a run is invoked, and when its invoker drops    *)
(* it, is up to the scheduler: no fairness there.                          *)
(***************************************************************************)
MaxLivePage == 2

\* stored, refused by the database, unmatched, malformed
LiveFragments == {NoyesFull, NoyesNoStamp, Downtown, BadCount}

LiveResponses == Responses(PagesOf(LiveFragments, MaxLivePage))

NextLive ==
    \/ Invoke("p1", EntryPoints, LiveResponses)
    \/ ProcessFacility("p1")
    \/ BeginUpdate("p1")
    \/ UpsertGet("p1", BOOLEAN)
    \/ UpsertCreate("p1", BOOLEAN)
    \/ Finish("p1")
    \/ Exit("p1")

RunFairness ==
    /\ WF_vars(ProcessFacility("p1"))
    /\ WF_vars(BeginUpdate("p1"))
    /\ WF_vars(UpsertGet("p1", BOOLEAN))
    /\ WF_vars(UpsertCreate("p1", BOOLEAN))
    /\ WF_vars(Finish("p1"))

SpecLive == Init /\ [][NextLive]_vars /\ RunFairness

(***************************************************************************)
(* Properties.                                                             *)
(***************************************************************************)
\* the run of w fetched its page / failed to fetch it
FetchedOk(w) == log[w] # <<>> /\ log[w][1] = Event("status", 200)
FetchFailedRun(w) == log[w] # <<>> /\ log[w][1] # Event("status", 200)

\* the upsert attempts a run printed, in order
IsAttempt(e) == e[1] \in {"created", "updated"} \cup DbErrors
Attempts(w) == SelectSeq(log[w], IsAttempt)
IsWrite(e) == e[1] \in {"created", "updated"}
StorageFault(w) == \E k \in 1..Len(log[w]) : log[w][k][1] = "OperationalError"

CrowdIdsOf(table, g) == {r.crowd_id : r \in {x \in table : x.gym = g}}

Holds(r, e) ==
    /\ r.gym = e.gym
    /\ r.occupancy = e.occupancy
    /\ r.percentage_full = e.percentage_full
    /\ r.last_updated = e.last_updated

OneRecordPerGym == \A g \in GymIds : Cardinality(RowsOf(g)) <= 1

UpdatesInPlace ==
    \A g \in GymIds :
        CrowdIdsOf(crowd, g) # {} => CrowdIdsOf(crowd', g) = CrowdIdsOf(crowd, g)

\* C1: runs that follow one another never leave a gym with more than one
\* CrowdData row, and once a gym has a row every later upsert keeps that row
\* (the same crowd_id) instead of adding one.
C1_OneRecordPerGym == []OneRecordPerGym /\ [][UpdatesInPlace]_vars

\* a run has saved new values over the row of a gym
C1_Witness ==
    \E k \in 1..Len(log["p1"]) :
        /\ log["p1"][k][1] = "updated"
        /\ Cardinality(RowsOf(log["p1"][k][2])) = 1

\* C2: when two runs overlap, no interleaving of their lookups and creates
\* leaves two CrowdData rows for one gym.
C2_NoDuplicateWhenOverlapping ==
    \A g \in GymIds : ~(\E r1, r2 \in RowsOf(g) : r1.crowd_id # r2.crowd_id)

\* the position of the last entry of list for gym g, 0 when there is none
LastFor(list, g) ==
    LET at == {k \in 1..Len(list) : list[k].gym = g}
    IN  IF at = {} THEN 0 ELSE CHOOSE k \in at : \A j \in at : j <= k

\* C3: a run that repeats the run before it over the same page leaves the
\* table as that run left it, with exactly one row for every matched gym,
\* holding the values of the last entry applied for the gym.
C3_RepeatedRunIdempotent ==
    (pc["p1"] = "done" /\ snapshot.active) =>
        /\ crowd = snapshot.crowd
        /\ \A k \in 1..Len(data_list["p1"]) :
              LET g == data_list["p1"][k].gym
                  e == data_list["p1"][LastFor(data_list["p1"], g)]
              IN  /\ Cardinality(RowsOf(g)) = 1
                  /\ \A r \in RowsOf(g) : Holds(r, e)

\* the part of C3 the code keeps: the repeated run leaves the table as the
\* run before it left it, and no gym with two rows
RepeatedRunKeepsTable ==
    (pc["p1"] = "done" /\ snapshot.active) =>
        (crowd = snapshot.crowd /\ OneRecordPerGym)

\* what the first loop makes of a fragment, for the process w
KindOf(w, k) == Resolve(facilities[w][k], Impl(entrypoint[w])).kind
EntryOf(w, k) == Entry(Resolve(facilities[w][k], Impl(entrypoint[w])))

\* fragment k of the page of w is well-formed, matched, and the last such
\* fragment of its gym on the page
LastMatched(w, k) ==
    /\ KindOf(w, k) = "entry"
    /\ \A j \in (k + 1)..Len(facilities[w]) :
          KindOf(w, j) = "entry" => EntryOf(w, j).gym # EntryOf(w, k).gym

\* C4: after a run with working storage, every well-formed matched fragment
\* (the last one of its gym), with or without a percentage, with or without
\* a timestamp, has its values in a row of its gym.
C4_MatchedFragmentStored ==
    (pc["p1"] = "done" /\ FetchedOk("p1") /\ ~StorageFault("p1")) =>
        \A k \in 1..Len(facilities["p1"]) :
            LastMatched("p1", k) =>
                \E r \in crowd : Holds(r, EntryOf("p1", k))

\* C5: the fragment of a closed gym (count NA, no value element, empty
\* updated text) is stored as occupancy 0 without percentage and timestamp,
\* and its upsert raises no error.
C5_ClosedGymStored ==
    (pc["p1"] = "done" /\ facilities["p1"] = <<NoyesClosed>>
        /\ ~StorageFault("p1")) =>
        /\ \E r \in RowsOf(1) :
              /\ r.occupancy = 0
              /\ r.percentage_full = NoValue
              /\ r.last_updated = NoValue
        /\ \A k \in 1..Len(log["p1"]) : log["p1"][k][1] \notin DbErrors

\* the extraction half of C5, which the code keeps
ClosedGymExtracted ==
    (pc["p1"] = "done" /\ facilities["p1"] = <<NoyesClosed>>) =>
        data_list["p1"] = <<[gym |-> 1, occupancy |-> 0,
                             percentage_full |-> NoValue,
                             last_updated |-> NoValue]>>

\* C6: a run whose fetch failed (the request raised, or the status is not
\* 200) is over at once: no fragment, no lookup, no entry, no upsert; and the
\* step that fails the fetch leaves both tables as they were.
C6_FailedFetchTouchesNothing ==
    /\ [](\A w \in Procs :
            FetchFailedRun(w) =>
                /\ pc[w] = "done"
                /\ Len(log[w]) = 1
                /\ facilities[w] = <<>>
                /\ data_list[w] = <<>>)
    /\ [][\A w \in Procs :
            (pc[w] = "idle" /\ pc'[w] = "done") =>
                /\ crowd' = crowd
                /\ gyms' = gyms
                /\ next_crowd_id' = next_crowd_id]_vars

\* a fetch failed over a table that holds rows
C6_Witness ==
    /\ FetchFailedRun("p1")
    /\ log["p1"][1] = Event("status", 500)
    /\ crowd # {}

\* C7: through every entry point, a run whose fetch failed ends with an
\* outcome its invoker can tell from that of a run that succeeded: it raises.
C7_FetchFailureSurfaced ==
    \A w \in Procs :
        (pc[w] = "done" /\ FetchFailedRun(w)) => outcome[w] = "raised"

\* the entries of a page, fragment by fragment, in document order
RECURSIVE Collect(_, _)
Collect(page, impl) ==
    IF page = <<>> THEN <<>>
    ELSE LET r == Resolve(Head(page), impl)
         IN  (IF r.kind = "entry" THEN <<Entry(r)>> ELSE <<>>)
                 \o Collect(Tail(page), impl)

\* an extraction step of the fragment raises
Failing(f, impl) == Parses[f][impl].error # ""

\* the page without its failing fragments
WithoutFailing(page, impl) == SelectSeq(page, LAMBDA f : ~Failing(f, impl))

AfterExtraction(w) == pc[w] \in {"update", "create", "done"} /\ FetchedOk(w)

\* C8: once the first loop is over, the entries collected are those of the
\* page without its failing fragments; each failing fragment was logged and
\* left no entry, so no upsert is attempted for it; and the run returns, no
\* exception leaves the loop.
C8_FailingFragmentsSkipped ==
    \A w \in Procs :
        AfterExtraction(w) =>
            LET impl == Impl(entrypoint[w])
                kept == WithoutFailing(facilities[w], impl)
            IN  /\ data_list[w] = Collect(kept, impl)
                /\ Len(log[w]) > Len(facilities[w])
                /\ \A k \in 1..Len(facilities[w]) :
                      Failing(facilities[w][k], impl) =>
                          log[w][k + 1] = Event("parse_error", 0)
                /\ Len(Attempts(w)) <= Len(Collect(kept, impl))
                /\ pc[w] = "done" => outcome[w] = "returned"

\* a failing fragment comes first and the well-formed fragment after it is
\* stored
C8_Witness ==
    /\ pc["p1"] = "done"
    /\ Len(facilities["p1"]) = 2
    /\ Failing(facilities["p1"][1], Impl(entrypoint["p1"]))
    /\ KindOf("p1", 2) = "entry"
    /\ \E r \in crowd : Holds(r, EntryOf("p1", 2))

C10_UpsertFailureDoesNotStopLoop ==
    \A w \in Procs :
        (pc[w] = "done" /\ FetchedOk(w)) =>
            /\ Len(Attempts(w)) = Len(data_list[w])
            /\ \A k \in 1..Len(data_list[w]) :
                  /\ Attempts(w)[k][2] = data_list[w][k].gym
                  /\ (/\ IsWrite(Attempts(w)[k])
                      /\ \A j \in (k + 1)..Len(data_list[w]) :
                            IsWrite(Attempts(w)[j]) =>
                                data_list[w][j].gym # data_list[w][k].gym)
                        => \E r \in crowd : Holds(r, data_list[w][k])

\* the first upsert met a storage failure, the second one was applied
C10_Witness ==
    /\ pc["p1"] = "done"
    /\ Len(Attempts("p1")) = 2
    /\ Attempts("p1")[1][1] = "OperationalError"
    /\ IsWrite(Attempts("p1")[2])
    /\ \E r \in crowd : Holds(r, data_list["p1"][2])

\* an upsert attempt of w has just raised
UpsertRaised(w) ==
    /\ pc[w] \in {"update", "create"}
    /\ Len(log'[w]) = Len(log[w]) + 1
    /\ log'[w][Len(log'[w])][1] \in DbErrors

\* C11: an upsert that raises leaves the table as the upserts before it left
\* it, and at the end of the run the row of a gym whose entry was applied
\* holds that entry's values although the upsert of a later entry raised
\* (unless a still later upsert for the same gym was applied over it).
C11_EarlierUpsertSurvivesLaterFailure ==
    /\ [](\A w \in Procs :
            (pc[w] = "done" /\ FetchedOk(w)) =>
                \A k \in 1..Len(Attempts(w)) :
                    (/\ IsWrite(Attempts(w)[k])
                     /\ \E j \in (k + 1)..Len(Attempts(w)) :
                            ~IsWrite(Attempts(w)[j])
                     /\ \A j \in (k + 1)..Len(Attempts(w)) :
                            IsWrite(Attempts(w)[j]) =>
                                Attempts(w)[j][2] # Attempts(w)[k][2])
                        => /\ Cardinality(RowsOf(data_list[w][k].gym)) = 1
                           /\ \A r \in RowsOf(data_list[w][k].gym) :
                                 Holds(r, data_list[w][k]))
    /\ [][\A w \in Procs :
            UpsertRaised(w) => (crowd' = crowd /\ next_crowd_id' = next_crowd_id)]_vars

\* the first entry was applied, the upsert of the second entry, for another
\* gym, raised, and the first gym's row holds the first entry
C11_Witness ==
    /\ pc["p1"] = "done"
    /\ Len(Attempts("p1")) = 2
    /\ IsWrite(Attempts("p1")[1])
    /\ ~IsWrite(Attempts("p1")[2])
    /\ Attempts("p1")[1][2] # Attempts("p1")[2][2]
    /\ \E r \in crowd : Holds(r, data_list["p1"][1])

\* the positions of the page of w whose fragments are well-formed and
\* matched to gym g
EntriesFor(w, g) ==
    {k \in 1..Len(facilities[w]) : KindOf(w, k) = "entry" /\ EntryOf(w, k).gym = g}

\* C12: when a page holds two well-formed fragments of one matched gym, the
\* run with working storage attempts an upsert for each of them, in document
\* order, and at its end the gym has a single row, which holds the values of
\* the fragment that comes later in the document.
C12_LaterFragmentWins ==
    (pc["p1"] = "done" /\ FetchedOk("p1") /\ ~StorageFault("p1")) =>
        \A g \in GymIds :
            LET at == EntriesFor("p1", g)
            IN  Cardinality(at) >= 2 =>
                    /\ data_list["p1"] = Collect(facilities["p1"], Impl(entrypoint["p1"]))
                    /\ Len(Attempts("p1")) = Len(data_list["p1"])
                    /\ \A k \in 1..Len(data_list["p1"]) :
                          Attempts("p1")[k][2] = data_list["p1"][k].gym
                    /\ Cardinality(RowsOf(g)) = 1
                    /\ \A r \in RowsOf(g) :
                          Holds(r, EntryOf("p1", CHOOSE k \in at : \A j \in at : j <= k))

\* a fragment is well-formed, matched, and carries a timestamp
Stamped(w, k) ==
    KindOf(w, k) = "entry" /\ EntryOf(w, k).last_updated # NoValue

\* the part of C12 the code keeps: when the later fragments of the gym carry
\* a timestamp, the gym's row holds the values of the last of them
LaterStampedFragmentWins ==
    (pc["p1"] = "done" /\ FetchedOk("p1") /\ ~StorageFault("p1")) =>
        \A g \in GymIds :
            LET at == EntriesFor("p1", g)
            IN  (Cardinality(at) >= 2 /\ \A k \in at : Stamped("p1", k)) =>
                    /\ Cardinality(RowsOf(g)) = 1
                    /\ \A r \in RowsOf(g) :
                          Holds(r, EntryOf("p1", CHOOSE k \in at : \A j \in at : j <= k))

\* the run of w has applied an upsert for gym g
Applied(w, g) ==
    \E k \in 1..Len(log[w]) : IsWrite(log[w][k]) /\ log[w][k][2] = g

\* this step applies an upsert of w
Applies(w) ==
    /\ pc[w] \in {"update", "create"}
    /\ Len(log'[w]) = Len(log[w]) + 1
    /\ IsWrite(log'[w][Len(log'[w])])

\* C13: when two overlapping runs have both applied an upsert for a gym, the
\* gym has one row whose three fields are those of one run's entry; every
\* applied upsert leaves the gym's rows holding its own entry, so that the
\* final row is that of the run that wrote last.
C13_LastWriteWinsWhole ==
    /\ [](\A g \in GymIds :
            (/\ pc["p1"] = "done" /\ pc["p2"] = "done"
             /\ Applied("p1", g) /\ Applied("p2", g)) =>
                /\ Cardinality(RowsOf(g)) = 1
                /\ \E w \in Procs :
                      \A r \in RowsOf(g) :
                          Holds(r, data_list[w][LastFor(data_list[w], g)]))
    /\ [][\A w \in Procs :
            Applies(w) =>
                \A r \in {x \in crowd' : x.gym = data_list[w][idx[w]].gym} :
                    Holds(r, data_list[w][idx[w]])]_vars

\* the part of C13 the code keeps: every row takes its three fields from
\* one entry, a save writes them together
RecordFromOneEntry ==
    \A r \in crowd :
        \E f \in ConcFragments : Holds(r, Entry(Resolve(f, "scraper")))

\* what a run hands back to its invoker: scrape_gym_data, the task and the
\* command have no return statement, the value is None
ReturnValue(w) == NoValue

ReportFields == {"matched", "unmatched", "updated", "update_errors"}

IsReport(v) == DOMAIN v = ReportFields /\ \A fld \in ReportFields : v[fld] \in Nat

\* how many events of the kinds in kinds the run of w printed
CountOf(w, kinds) == Cardinality({k \in 1..Len(log[w]) : log[w][k][1] \in kinds})

TrimmedPrefix(f) ==
    LET j == Find(f.text, <<LastCountMark>>)
    IN  Strip(SubSeq(f.text, 1, IF j = 0 THEN Len(f.text) ELSE j - 1))

NameOfGym(g) == (CHOOSE x \in gyms : x.gym_id = g).name

\* the position in data_list of the entry of fragment k
EntryIndex(w, k) == Cardinality({j \in 1..k : KindOf(w, j) = "entry"})

\* fragment k of the page of w has caused a write for gym g
CausedWrite(w, k, g) ==
    /\ KindOf(w, k) = "entry"
    /\ EntryOf(w, k).gym = g
    /\ EntryIndex(w, k) <= Len(Attempts(w))
    /\ IsWrite(Attempts(w)[EntryIndex(w, k)])

\* C15: a fragment causes a write for gym g only when its trimmed text
\* before "Last Count:" is exactly the name of g; a fragment whose prefix is
\* empty, or differs from the name of g, causes no write for g.
C15_WritesOnlyForExactName ==
    \A w \in Procs :
        (pc[w] = "done" /\ FetchedOk(w)) =>
            \A k \in 1..Len(facilities[w]) :
                \A g \in GymIds :
                    CausedWrite(w, k, g) =>
                        /\ TrimmedPrefix(facilities[w][k]) # <<>>
                        /\ TrimmedPrefix(facilities[w][k]) = NameOfGym(g)

\* the part of C15 the code keeps: a fragment whose prefix is not empty
\* causes a write only for the gym that bears exactly that name
NonEmptyPrefixExactMatch ==
    \A w \in Procs :
        (pc[w] = "done" /\ FetchedOk(w)) =>
            \A k \in 1..Len(facilities[w]) :
                \A g \in GymIds :
                    (CausedWrite(w, k, g) /\ TrimmedPrefix(facilities[w][k]) # <<>>) =>
                        TrimmedPrefix(facilities[w][k]) = NameOfGym(g)

\* the text of a fragment between "Last Count:" and "Updated:", trimmed
CountSubstring(f) ==
    LET a    == Find(f.text, <<LastCountMark>>)
        rest == SubSeq(f.text, a + 1, Len(f.text))
        b    == Find(rest, <<UpdatedMark>>)
    IN  Strip(SubSeq(rest, 1, IF b = 0 THEN Len(rest) ELSE b - 1))

\* the text denotes a negative integer / an integer that is not negative
DenotesNegative(t) == Len(t) >= 2 /\ Head(t) = "-" /\ IsDigits(Tail(t))
DenotesNonNegative(t) == IsDigits(t)

\* what the first loop printed for fragment k of the page of w
PrintedKind(w, k) == log[w][k + 1][1]

\* the entry data_list holds for fragment k, when the loop made one
Collected(w, k) == data_list[w][EntryIndex(w, k)]

\* C16: no row ever holds a negative occupancy, and a fragment whose count
\* text denotes a negative integer is a parse failure: it leaves no entry.
C16_OccupancyNeverNegative ==
    /\ \A r \in crowd : r.occupancy >= 0
    /\ \A w \in Procs :
          AfterExtraction(w) =>
              \A k \in 1..Len(facilities[w]) :
                  DenotesNegative(CountSubstring(facilities[w][k])) =>
                      PrintedKind(w, k) = "parse_error"

\* C17: a fragment whose count substring is the literal "NA" is extracted,
\* through every entry point, with the occupancy 0.
C17_CountNAIsZero ==
    \A w \in Procs :
        AfterExtraction(w) =>
            \A k \in 1..Len(facilities[w]) :
                CountSubstring(facilities[w][k]) = NA =>
                    /\ PrintedKind(w, k) = "entry"
                    /\ Collected(w, k).occupancy = 0

\* a fragment with the count NA and a timestamp was stored with occupancy 0
C17_Witness ==
    /\ pc["p1"] = "done"
    /\ facilities["p1"] = <<FieldWidget(NA, Stamp1, Some(<<"6", "4", "%">>))>>
    /\ \E r \in RowsOf(1) : r.occupancy = 0 /\ r.percentage_full # NoValue

\* C18: the occupancy is 0 by default only for the count "NA": a fragment
\* whose count substring is neither "NA" nor a non-negative integer, the
\* empty text included, is a parse failure and leaves no entry.
C18_OnlyNADefaultsToZero ==
    \A w \in Procs :
        AfterExtraction(w) =>
            \A k \in 1..Len(facilities[w]) :
                LET c == CountSubstring(facilities[w][k])
                IN  (c # NA /\ ~DenotesNonNegative(c)) =>
                        PrintedKind(w, k) = "parse_error"

\* the part of C18 the code keeps: a count that is not empty, not "NA" and
\* no integer is a parse failure
NonNumericCountFails ==
    \A w \in Procs :
        AfterExtraction(w) =>
            \A k \in 1..Len(facilities[w]) :
                LET c == CountSubstring(facilities[w][k])
                IN  (c # NA /\ c # <<>> /\ ~DenotesNonNegative(c) /\ ~DenotesNegative(c)) =>
                        PrintedKind(w, k) = "parse_error"

\* C19: a fragment whose value element is missing, or has the text "NA", is
\* extracted with percentage_full None, and fares as the same fragment with
\* a percentage does: it is collected whenever that one is.
C19_NoPercentageIsNone ==
    \A w \in Procs :
        AfterExtraction(w) =>
            \A k \in 1..Len(facilities[w]) :
                \A c \in CountTexts, u \in UpdatedTexts, v \in {NoValue, Some(NA)} :
                    facilities[w][k] = FieldWidget(c, u, v) =>
                        /\ PrintedKind(w, k) =
                              Resolve(FieldWidget(c, u, Some(<<"6", "4", "%">>)),
                                      Impl(entrypoint[w])).kind
                        /\ PrintedKind(w, k) = "entry" =>
                              Collected(w, k).percentage_full = NoValue

\* a fragment with the value text "NA" was stored without a percentage
C19_Witness ==
    /\ pc["p1"] = "done"
    /\ facilities["p1"] = <<FieldWidget(<<"4", "2">>, Stamp1, Some(NA))>>
    /\ \E r \in RowsOf(1) : r.occupancy = 42 /\ r.percentage_full = NoValue

\* the well-formed fragments of registered gyms among those Spec fetches
WellFormedMatched ==
    {NoyesFull, NoyesClosed, NoyesNoStamp, NoyesNoValue, TeagleNA}

GymOfName(name) == (CHOOSE g \in gyms : g.name = name).gym_id

\* C20: a page of N well-formed fragments of registered gyms (N may be 0)
\* gives N collected entries, the k-th for the gym of the k-th fragment, and
\* by the end of the run N upsert attempts, the k-th for that same gym.
C20_NFragmentsNEntriesNAttempts ==
    \A w \in Procs :
        (/\ FetchedOk(w)
         /\ \A k \in 1..Len(facilities[w]) : facilities[w][k] \in WellFormedMatched) =>
            /\ pc[w] \in {"update", "create", "done"} =>
                  /\ Len(data_list[w]) = Len(facilities[w])
                  /\ \A k \in 1..Len(facilities[w]) :
                        /\ data_list[w][k].gym =
                              GymOfName(TrimmedPrefix(facilities[w][k]))
                        /\ data_list[w][k] = EntryOf(w, k)
            /\ pc[w] = "done" =>
                  /\ Len(Attempts(w)) = Len(facilities[w])
                  /\ \A k \in 1..Len(facilities[w]) :
                        Attempts(w)[k][2] = GymOfName(TrimmedPrefix(facilities[w][k]))

\* a page of two well-formed fragments of two gyms, both attempted in order
C20_Witness ==
    /\ pc["p1"] = "done"
    /\ facilities["p1"] = <<TeagleNA, NoyesFull>>
    /\ Len(data_list["p1"]) = 2
    /\ Attempts("p1")[1][2] = 2
    /\ Attempts("p1")[2][2] = 1

(***************************************************************************)
(* populate_data.                                                          *)
(***************************************************************************)
GymsNamed(table, n) == {g \in table : g.name = n}

PopulateCompleted(w) ==
    req[w].op = "populate" /\ req[w].phase = "done" /\ ~req[w].error

\* a populate step keeps every row, with its gym_id and its name, and adds
\* rows only for dataset names no row bore
PopulateKeepsRows ==
    /\ \A g \in gyms : \E h \in gyms' : h.gym_id = g.gym_id /\ h.name = g.name
    /\ \A h \in gyms' :
          \/ \E g \in gyms : g.gym_id = h.gym_id
          \/ h.name \in DatasetNames /\ GymsNamed(gyms, h.name) = {}

\* C21: populate_data run again and again, one run after the other, never
\* gives a dataset name a second Gym row; when a run has completed without
\* an exception each dataset name is held by exactly one row, which has the
\* location and type of the dataset; every step keeps the rows there are,
\* with gym_id and name, and adds rows only for names that had none.
C21_PopulateNeverDuplicates ==
    /\ [](\A n \in DatasetNames : Cardinality(GymsNamed(gyms, n)) <= 1)
    /\ [](PopulateCompleted("p1") =>
            \A k \in 1..Len(GymData) :
               \E g \in gyms :
                  /\ GymsNamed(gyms, GymData[k].name) = {g}
                  /\ g = GymRow(g.gym_id, GymData[k]))
    /\ [][PopulateKeepsRows]_vars

\* a run over a table that held one dataset gym, with an older location,
\* has completed: the row was updated and the other gym inserted
C21_Witness ==
    /\ PopulateCompleted("p1")
    /\ req["p1"].existing \cap DatasetNames = {NoyesName}
    /\ GymRow(1, GymData[1]) \in gyms
    /\ \E g \in gyms : g.name = TeagleName

(***************************************************************************)
(* users: sign-up.                                                         *)
(***************************************************************************)
\* no two users share a username, and no two share an email
UsersUnique ==
    \A x, y \in users :
        (x.username = y.username \/ x.email = y.email) => x = y

SignUpAnswered(w) == req[w].op = "signup" /\ req[w].phase = "done"

\* C22: after any sign-up requests, concurrent ones included, no two users
\* share a username or an email, and a sign-up that created no user (its
\* email or username was taken, or a field was missing) is answered 400.
C22_UniqueAndTaken400 ==
    /\ UsersUnique
    /\ \A w \in Procs :
          SignUpAnswered(w) =>
             IF req[w].created THEN req[w].status = HTTP_201
                               ELSE req[w].status = HTTP_400

(***************************************************************************)
(* users: tokens.                                                          *)
(***************************************************************************)
Answered(w, op) == req[w].op = op /\ req[w].phase = "done"

\* C23: after any sequence of token and logout requests each user has at
\* most one token; a token request with valid credentials is answered 200
\* with a new key, which is then the only token of the user (every key
\* issued to the user before is gone); after a logout the user has no token.
C23_AtMostOneToken ==
    /\ \A x \in users : Cardinality(TokensOf(x.user_id)) <= 1
    /\ \A t \in tokens : t.key \in 1..token_seq
    /\ (Answered("p1", "token") /\ req["p1"].user # NoUser) =>
          /\ req["p1"].status = HTTP_200
          /\ req["p1"].key = token_seq
          /\ TokensOf(req["p1"].user) = {[key |-> token_seq, user |-> req["p1"].user]}
    /\ Answered("p1", "logout") => TokensOf(req["p1"].user) = {}

\* a user who held a token has been given a new one, the earlier deleted
C23_Witness ==
    /\ Answered("p1", "token")
    /\ req["p1"].status = HTTP_200
    /\ req["p1"].deleted = 1
    /\ req["p1"].key > 1

(***************************************************************************)
(* users: preferences.                                                     *)
(***************************************************************************)
\* the request a step answers is of user u
RequestOf(w, u) ==
    req[w] = NoRequest /\ req'[w] # NoRequest /\ req'[w].user = u

\* C24: every stored preference is owned by the user it was created for,
\* and the requests of a user A never add, change or remove a preference
\* in the list of another user B.
C24_PreferencesStayWithOwner ==
    /\ [](\A r \in prefs : r.user = r.creator)
    /\ [][\A a, b \in {x.user_id : x \in users} :
            (a # b /\ RequestOf("p1", a)) =>
               {r \in prefs' : r.user = b} = {r \in prefs : r.user = b}]_vars

\* the requests of a user A never change or remove a preference that is in
\* the list of another user B, and never show A a preference of B
ForeignPreferencesKept ==
    [][\A a, b \in {x.user_id : x \in users} :
         (a # b /\ RequestOf("p1", a)) =>
            /\ {r \in prefs : r.user = b} \subseteq prefs'
            /\ (req'["p1"].status = HTTP_200 /\ req'["p1"].pk # 0) =>
                  \E r \in prefs : r.preference_id = req'["p1"].pk /\ r.user = a]_vars

(***************************************************************************)
(* The two implementations.                                                *)
(***************************************************************************)
BothHaveRun(w) ==
    pc[w] = "done" /\ entrypoint[w] = "command" /\ snapshot.active

\* C25: started from the same store and given the same page, with well-
\* formed fragments, empty names, empty counts and unmatched names in any
\* mix, the function of scraper.py and the management command end with the
\* same store contents.
C25_ImplementationsEquivalent ==
    BothHaveRun("p1") => crowd = snapshot.crowd

\* on a page without an empty count, and without an empty name when a gym
\* is named "Unknown", the two end with the same store contents
EquivalentWithoutDefaults ==
    (/\ BothHaveRun("p1")
     /\ \A k \in 1..Len(facilities["p1"]) :
           /\ facilities["p1"][k] # EmptyCount
           /\ facilities["p1"][k] = NoName => UnknownGym \notin gyms)
    => crowd = snapshot.crowd

(***************************************************************************)
(* The frame of a run.                                                     *)
(***************************************************************************)
\* a fragment is well-formed: a name, a count that is "NA" or a non-negative
\* integer, and no field that fails to parse
WellFormed(f) ==
    /\ TrimmedPrefix(f) # <<>>
    /\ CountSubstring(f) = NA \/ DenotesNonNegative(CountSubstring(f))
    /\ \A impl \in Implementations : Parses[f][impl].error = ""

\* no step creates, changes or deletes a Gym row, or deletes a CrowdData
\* record or moves it to another gym
KeepsGymsAndRecords ==
    /\ gyms' = gyms
    /\ \A r \in crowd : \E q \in crowd' : q.crowd_id = r.crowd_id /\ q.gym = r.gym

\* C26: a run changes nothing but the CrowdData of gyms named by well-formed
\* matched fragments of its page: no step creates, changes or deletes a Gym
\* row or deletes a CrowdData record, and the records of a gym change only
\* when the page holds a well-formed fragment that bears the gym's name.
C26_FrameOfRun ==
    [][/\ KeepsGymsAndRecords
       /\ \A g \in GymIds :
             {r \in crowd' : r.gym = g} # RowsOf(g) =>
                \E k \in 1..Len(facilities["p1"]) :
                   /\ WellFormed(facilities["p1"][k])
                   /\ TrimmedPrefix(facilities["p1"][k]) = NameOfGym(g)]_vars

\* the frame the code keeps: Gym rows and the existence of records as in
\* C26, and the records of a gym change only when the run has collected an
\* entry for the gym
FrameOfCollectedEntries ==
    [][/\ KeepsGymsAndRecords
       /\ \A g \in GymIds :
             {r \in crowd' : r.gym = g} # RowsOf(g) =>
                \E j \in 1..Len(data_list["p1"]) : data_list["p1"][j].gym = g]_vars

(***************************************************************************)
(* Runs and the crowd-data API.                                            *)
(***************************************************************************)
\* the run of w has ended and gym g has a record with the values of the
\* last entry the run collected for g
Refreshed(w, g) ==
    \E r \in RowsOf(g) : Holds(r, data_list[w][LastFor(data_list[w], g)])

RefreshedUnlessDuplicated ==
    (pc["p1"] = "done" /\ FetchedOk("p1")) =>
        \A j \in 1..Len(data_list["p1"]) :
            Cardinality(RowsOf(data_list["p1"][j].gym)) <= 1 =>
                Refreshed("p1", data_list["p1"][j].gym)

(***************************************************************************)
(* Gyms of the same name.                                                  *)
(***************************************************************************)
Namesakes(name) == {g \in gyms : g.name = name}

\* C28: when two or more gyms bear the same name, a fragment of that name
\* causes no write for any of them and does not abort the run: it is
\* printed as a parse failure and leaves no entry, every fragment of the
\* page is examined, and the fragments of other gyms are stored.
C28_DuplicateNameSkipped ==
    /\ \A g \in gyms : Cardinality(Namesakes(g.name)) > 1 => RowsOf(g.gym_id) = {}
    /\ AfterExtraction("p1") =>
          /\ Len(log["p1"]) >= Len(facilities["p1"]) + 1
          /\ \A k \in 1..Len(facilities["p1"]) :
                Cardinality(Namesakes(TrimmedPrefix(facilities["p1"][k]))) > 1 =>
                   /\ PrintedKind("p1", k) = "parse_error"
                   /\ \A j \in 1..Len(data_list["p1"]) :
                         data_list["p1"][j].gym \notin
                            {g.gym_id : g \in Namesakes(TrimmedPrefix(facilities["p1"][k]))}
    /\ (pc["p1"] = "done" /\ FetchedOk("p1")) =>
          /\ outcome["p1"] = "returned"
          /\ \A k \in 1..Len(facilities["p1"]) :
                facilities["p1"][k] = TeagleNA => Refreshed("p1", 2)

\* a page with a fragment of the doubled name and then one of another gym:
\* the first was skipped, the second stored
C28_Witness ==
    /\ pc["p1"] = "done"
    /\ facilities["p1"] = <<NoyesFull, TeagleNA>>
    /\ PrintedKind("p1", 1) = "parse_error"
    /\ RowsOf(2) # {}
    /\ RowsOf(1) = {} /\ RowsOf(4) = {}

(***************************************************************************)
(* Termination and the work of a run.                                      *)
(***************************************************************************)
FetchKinds == {"status", "request_failed"}
FragmentKinds == {"entry", "no_match", "parse_error"}

Running(w) == pc[w] \in {"extract", "update", "create"}

\* one fetch, no fragment examined twice, no entry attempted twice
BoundedWork(w) ==
    pc[w] # "idle" =>
        /\ CountOf(w, FetchKinds) = 1
        /\ CountOf(w, FragmentKinds) <= Len(facilities[w])
        /\ AfterExtraction(w) => CountOf(w, FragmentKinds) = Len(facilities[w])
        /\ Len(Attempts(w)) <= Len(data_list[w])
        /\ FetchFailedRun(w) => Len(log[w]) = 1

====
